---- MODULE Spec2Model ----
(***************************************************************************)
(* The admin log table (frontend/components/admin/LogsTable.tsx) and the   *)
(* part of the API client it calls (apiClient.getLogs, fetchAPI).          *)
(*                                                                         *)
(* The component is a React function component: its state is the set of    *)
(* useState cells, its props are `filters`.  One action of this module is  *)
(* one event of the single-threaded event loop (mount, new props, a click, *)
(* the settling of a promise) together with the re-render it causes and    *)
(* the effects React runs for that render, up to the point where no effect *)
(* is pending.  State updates made in one event are batched.               *)
(*                                                                         *)
(* A LogEntry is immutable and is held by its numeric id; its other fields *)
(* are looked up by id (Day, Risks, ...).                                  *)
(***************************************************************************)
EXTENDS Integers, Sequences, FiniteSets, Bags, TLC

VARIABLES
  mounted,      \* the component has been mounted (first render + effects ran)
  filters,      \* props.filters
  logs,         \* useState<LogEntry[]>([])
  loading,      \* useState(true)
  error,        \* useState<string | null>(null)
  total,        \* useState(0)
  limit,        \* useState(50)
  offset,       \* useState(0)
  hasMore,      \* useState(false)
  clientMode,   \* useState(false)
  clientAll,    \* useState<LogEntry[]>([])
  inflight,     \* pending fetchLogs calls (awaiting apiClient.getLogs): a bag of calls
  exports,      \* pending handleExport calls (awaiting apiClient.getLogs): a bag of calls
  db,           \* the records the Remote Log Source holds, in its response order
  events,       \* number of operator events (filter changes, clicks) handled so far
  lastEvent     \* the event handled by the last step, with what it sent or produced

vars == <<mounted, filters, logs, loading, error, total, limit, offset, hasMore,
          clientMode, clientAll, inflight, exports, db, events, lastEvent>>

display == <<logs, loading, error, total, limit, offset, hasMore, clientMode, clientAll>>

(***************************************************************************)
(* Bounds of the model and constants of the program.                       *)
(***************************************************************************)
MaxInFlight == 2        \* display fetches in flight at once
MaxExports == 1         \* exports in flight at once
MaxEvents == 3          \* operator events (filter changes, clicks) in a run
DbBig == 128            \* size of the larger record store
DbOverCeiling == 1001   \* size of a record store larger than the bulk limit

InitialLimit == 50      \* useState(50)
BulkLimit == 1000       \* limit: 1000 of the client-side branch and of the export

\* JavaScript undefined (an absent property) and null
Undef == "<undefined>"
Null == "<null>"

Min(a, b) == IF a < b THEN a ELSE b

\* Math.max(0, x)
MathMax0(x) == IF x > 0 THEN x ELSE 0

\* ToBoolean of a string, undefined or null: undefined, null and "" are falsy
Truthy(v) == v # Undef /\ v # Null /\ v # ""

(***************************************************************************)
(* Records of the Remote Log Source.                                       *)
(***************************************************************************)
Risk(t, s) == [type |-> t, severity |-> s]

\* The properties of the record with a given id.  Records are numbered in the
\* order they were logged, one a day; HasRisks(id) = FALSE stands for a record
\* whose `risks` property is missing.
Day(id) == id

HasRisks(id) == ~(id > 3 /\ id % 5 = 4)

Risks(id) ==
  CASE id = 1 -> <<Risk("pii", "high")>>
    [] id = 2 -> <<Risk("injection", "low")>>
    [] id = 3 -> <<>>
    [] id > 3 /\ id % 5 = 4 -> <<>>
    [] id > 3 /\ id % 5 = 0 -> <<Risk("pii", "high"), Risk("injection", "low")>>
    [] OTHER -> <<Risk("pii", "medium")>>

DbSizes == {3, DbBig}

\* day number of a date string of the filter form
DayOf(d) ==
  CASE d = "2024-01-02" -> 2
    [] d = "2024-03-01" -> 61
    [] OTHER -> 0

Filter(t, s, from, to) == [type |-> t, severity |-> s, date_from |-> from, date_to |-> to]

\* The filter values the parent passes (filters === undefined is the all-absent
\* record).  Against the larger store the operator uses the filters whose result
\* sets span several pages; against the 3 records, every combination of fields.
PagingFilters ==
  { Filter(Undef, Undef, Undef, Undef),
    Filter("pii", Undef, Undef, Undef),
    Filter("pii", "low", Undef, Undef),
    Filter("pii", "", "2024-01-02", Undef),
    Filter("", Undef, "2024-01-02", "2024-03-01") }

FilterChoices(store) ==
  IF Len(store) > 3 THEN PagingFilters
  ELSE PagingFilters \cup
       { Filter(Undef, "low", Undef, Undef),
         Filter("injection", "low", Undef, Undef),
         Filter(Undef, Undef, Undef, "2024-03-01") }

(***************************************************************************)
(* API client: apiClient.getLogs and fetchAPI.                             *)
(***************************************************************************)
OptionalKeys == {"type", "severity", "date_from", "date_to"}

\* The query string getLogs builds: one entry per parameter whose value is not
\* undefined.  limit, offset and format are always given by the callers here.
getLogs(params) ==
  [k \in {"limit", "offset", "format"} \cup {k \in OptionalKeys : params[k] # Undef}
     |-> params[k]]

Carried(req, k) == IF k \in DOMAIN req THEN req[k] ELSE Undef

\* `API request failed: ${statusText}`
ApiRequestFailed(statusText) ==
  CASE statusText = "Internal Server Error" -> "API request failed: Internal Server Error"
    [] statusText = "Bad Gateway" -> "API request failed: Bad Gateway"
    [] OTHER -> "API request failed: "

\* The ways a json request can fail: a non-ok status whose body is json (with or
\* without a detail), a non-ok status whose body is not json, a rejected fetch.
Failures ==
  { [kind |-> "http", json |-> TRUE, detail |-> "Database error",
     statusText |-> "Internal Server Error"],
    [kind |-> "http", json |-> TRUE, detail |-> Undef,
     statusText |-> "Internal Server Error"],
    [kind |-> "http", json |-> FALSE, detail |-> Undef, statusText |-> "Bad Gateway"],
    [kind |-> "network", json |-> FALSE, detail |-> Undef, statusText |-> ""] }

\* Every way of failing is tried against the 3-record store; the large store,
\* which is there for paging, sees one APIError and one rejected fetch.
FailureChoices(store) ==
  IF Len(store) > 3
  THEN {fl \in Failures : Truthy(fl.detail) \/ fl.kind = "network"}
  ELSE Failures

\* fetchAPI, the !response.ok branch: the message of the APIError it throws
fetchAPIErrorMessage(fl) ==
  LET errorData == IF fl.json THEN fl.detail ELSE fl.statusText
  IN  IF Truthy(errorData) THEN errorData ELSE ApiRequestFailed(fl.statusText)

\* err instanceof APIError
IsAPIError(fl) == fl.kind = "http"

\* `Failed to fetch logs: ${response.statusText}`
FailedToFetchLogs(statusText) ==
  CASE statusText = "Internal Server Error" -> "Failed to fetch logs: Internal Server Error"
    [] statusText = "Bad Gateway" -> "Failed to fetch logs: Bad Gateway"
    [] OTHER -> "Failed to fetch logs: "

\* The error apiClient.getLogs rejects with when the request of the given format
\* fails as fl: the csv branch throws its own APIError without reading the body,
\* the json branch is fetchAPI; a rejected fetch is passed on (a TypeError).
getLogsError(format, fl) ==
  IF fl.kind # "http" THEN [api |-> FALSE, message |-> "Failed to fetch"]
  ELSE IF format = "csv"
       THEN [api |-> TRUE, message |-> FailedToFetchLogs(fl.statusText)]
       ELSE [api |-> TRUE, message |-> fetchAPIErrorMessage(fl)]

\* mutant of fetchLogsErrorMessage: the message of the APIError is not used
fetchLogsErrorMessageGeneric(fl) == "Failed to fetch logs"

\* fetchLogs, the catch block: the value given to setError
fetchLogsErrorMessage(fl) ==
  IF IsAPIError(fl) THEN fetchAPIErrorMessage(fl) ELSE "Failed to fetch logs"

(***************************************************************************)
(* Remote Log Source: GET /v1/logs with format=json.                       *)
(***************************************************************************)
SomeRiskOfType(id, type) ==
  HasRisks(id) /\ \E i \in 1..Len(Risks(id)) : Risks(id)[i].type = type

SomeRiskOfSeverity(id, severity) ==
  HasRisks(id) /\ \E i \in 1..Len(Risks(id)) : Risks(id)[i].severity = severity

RemoteMatches(id, req) ==
  /\ Truthy(Carried(req, "date_from")) => Day(id) >= DayOf(req.date_from)
  /\ Truthy(Carried(req, "date_to")) => Day(id) <= DayOf(req.date_to)
  /\ Truthy(Carried(req, "type")) => SomeRiskOfType(id, req.type)
  /\ Truthy(Carried(req, "severity")) => SomeRiskOfSeverity(id, req.severity)

RemoteSelect(req) == SelectSeq(db, LAMBDA id : RemoteMatches(id, req))

RemoteResponse(req) ==
  LET all == RemoteSelect(req)
  IN  [logs |-> SubSeq(all, req.offset + 1, Min(req.offset + req.limit, Len(all))),
       total |-> Len(all),
       limit |-> req.limit,
       offset |-> req.offset,
       has_more |-> req.offset + req.limit < Len(all)]

(***************************************************************************)
(* fetchLogs.                                                              *)
(***************************************************************************)
\* Array.prototype.slice(start, end) for 0 <= start <= end
Slice(s, start, end) == SubSeq(s, start + 1, Min(end, Len(s)))

HasTypeOrSeverity(f) == Truthy(f.type) \/ Truthy(f.severity)

\* const { type, severity, ...rest } = filters || {};  { ...rest, limit: 1000, offset: 0, format: 'json' }
FetchClientParams(f) ==
  [type |-> Undef, severity |-> Undef, date_from |-> f.date_from, date_to |-> f.date_to,
   limit |-> BulkLimit, offset |-> 0, format |-> "json"]

\* { ...filters, limit, offset, format: 'json' }
FetchServerParams(f, lim, off) ==
  [type |-> f.type, severity |-> f.severity, date_from |-> f.date_from,
   date_to |-> f.date_to, limit |-> lim, offset |-> off, format |-> "json"]

FetchRequest(f, lim, off) ==
  IF HasTypeOrSeverity(f)
  THEN getLogs(FetchClientParams(f))
  ELSE getLogs(FetchServerParams(f, lim, off))

\* log.risks || []
RisksOrEmpty(id) == IF HasRisks(id) THEN Risks(id) ELSE <<>>

\* mutant of LogMatches: the two field tests joined by || instead of &&
LogMatchesEitherField(id, type, severity) ==
  LET risks == RisksOrEmpty(id)
      typeOk == IF Truthy(type) THEN \E i \in 1..Len(risks) : risks[i].type = type
                ELSE TRUE
      severityOk == IF Truthy(severity)
                    THEN \E i \in 1..Len(risks) : risks[i].severity = severity
                    ELSE TRUE
  IN  typeOk \/ severityOk

\* the callback of response.logs.filter
LogMatches(id, type, severity) ==
  LET risks == RisksOrEmpty(id)
      typeOk == IF Truthy(type) THEN \E i \in 1..Len(risks) : risks[i].type = type
                ELSE TRUE
      severityOk == IF Truthy(severity)
                    THEN \E i \in 1..Len(risks) : risks[i].severity = severity
                    ELSE TRUE
  IN  typeOk /\ severityOk

filtered(responseLogs, type, severity) ==
  SelectSeq(responseLogs, LAMBDA id : LogMatches(id, type, severity))

\* What fetchLogs sets after a successful response, from the values of the render
\* it was called in (f, lim, off): the client-side branch and the server-side branch.
FetchClientUpdate(resp, f, lim, off) ==
  LET fl == filtered(resp.logs, f.type, f.severity)
  IN  [clientMode |-> TRUE,
       clientAll |-> fl,
       total |-> Len(fl),
       hasMore |-> off + lim < Len(fl),
       logs |-> Slice(fl, off, off + lim)]

\* mutant of FetchServerUpdate: total counted from the page instead of taken
\* from the response
FetchServerUpdateCounted(resp) ==
  [clientMode |-> FALSE,
   clientAll |-> <<>>,
   logs |-> resp.logs,
   total |-> Len(resp.logs),
   hasMore |-> resp.has_more]

FetchServerUpdate(resp) ==
  [clientMode |-> FALSE,
   clientAll |-> <<>>,
   logs |-> resp.logs,
   total |-> resp.total,
   hasMore |-> resp.has_more]

FetchUpdate(resp, f, lim, off) ==
  IF HasTypeOrSeverity(f) THEN FetchClientUpdate(resp, f, lim, off)
  ELSE FetchServerUpdate(resp)

\* mutant of SliceEffect: the effect does not run
SliceEffectSkipped(s, lim, off) == s

\* mutant of SliceEffect: has_more computed with <= instead of <
SliceEffectOffByOne(s, lim, off) ==
  IF s.clientMode
  THEN [s EXCEPT !.logs = Slice(s.clientAll, off, off + lim),
                 !.hasMore = off + lim <= Len(s.clientAll),
                 !.total = Len(s.clientAll)]
  ELSE s

\* useEffect(..., [clientMode, clientAll, limit, offset]): the re-slice of the cache,
\* run after a render in which one of the four changed, with that render's values
SliceEffect(s, lim, off) ==
  IF s.clientMode
  THEN [s EXCEPT !.logs = Slice(s.clientAll, off, off + lim),
                 !.hasMore = off + lim < Len(s.clientAll),
                 !.total = Len(s.clientAll)]
  ELSE s

Shown == [clientMode |-> clientMode, clientAll |-> clientAll, logs |-> logs,
          total |-> total, hasMore |-> hasMore]

SetShown(s) ==
  /\ clientMode' = s.clientMode
  /\ clientAll' = s.clientAll
  /\ logs' = s.logs
  /\ total' = s.total
  /\ hasMore' = s.hasMore

Event(kind, msg, out) == [kind |-> kind, msg |-> msg, out |-> out]

\* a call of fetchLogs in a render with values (f, lim, off), up to its await
Call(f, lim, off) == [filters |-> f, limit |-> lim, offset |-> off,
                      req |-> FetchRequest(f, lim, off)]

\* useEffect(() => { fetchLogs(); }, [limit, offset, filters]): setLoading(true),
\* setError(null) and the request
StartFetch(f, lim, off) ==
  /\ loading' = TRUE
  /\ error' = Null
  /\ inflight' = inflight (+) SetToBag({Call(f, lim, off)})


(***************************************************************************)
(* What is rendered.                                                       *)
(***************************************************************************)
LoadingScreen == loading /\ Len(logs) = 0
ErrorScreen == ~LoadingScreen /\ Truthy(error)
TableVisible == mounted /\ ~LoadingScreen /\ ~ErrorScreen

\* mutant of NextDisabled: the Next button is never disabled
NextNeverDisabled == FALSE

\* disabled={offset === 0} and disabled={!hasMore}
PreviousDisabled == offset = 0
NextDisabled == ~hasMore

(***************************************************************************)
(* Events of the display path.                                             *)
(***************************************************************************)
Init ==
  /\ db \in {[i \in 1..n |-> i] : n \in DbSizes}
  /\ mounted = FALSE
  /\ filters \in FilterChoices(db)
  /\ logs = <<>>
  /\ loading = TRUE
  /\ error = Null
  /\ total = 0
  /\ limit = InitialLimit
  /\ offset = 0
  /\ hasMore = FALSE
  /\ clientMode = FALSE
  /\ clientAll = <<>>
  /\ inflight = EmptyBag
  /\ exports = EmptyBag
  /\ events = 0
  /\ lastEvent = Event("init", <<>>, <<>>)

\* first render: both effects run, the second one with clientMode false
Mount ==
  /\ ~mounted
  /\ mounted' = TRUE
  /\ StartFetch(filters, limit, offset)
  /\ lastEvent' = Event("mount", <<Call(filters, limit, offset)>>, <<>>)
  /\ UNCHANGED <<filters, logs, total, limit, offset, hasMore, clientMode, clientAll,
                 exports, db, events>>

\* mutant of ChangeFilters: new filters take the table back to the first page
ChangeFiltersResetsOffset(f) ==
  /\ mounted
  /\ f # filters
  /\ events < MaxEvents
  /\ BagCardinality(inflight) < MaxInFlight
  /\ filters' = f
  /\ offset' = 0
  /\ events' = events + 1
  /\ StartFetch(f, limit, 0)
  /\ SetShown(SliceEffect(Shown, limit, 0))
  /\ lastEvent' = Event("filters", <<Call(f, limit, 0)>>, <<>>)
  /\ UNCHANGED <<mounted, limit, exports, db>>

\* the parent passes other filters: the first effect runs
ChangeFilters(f) ==
  /\ mounted
  /\ f # filters
  /\ events < MaxEvents
  /\ BagCardinality(inflight) < MaxInFlight
  /\ filters' = f
  /\ events' = events + 1
  /\ StartFetch(f, limit, offset)
  /\ lastEvent' = Event("filters", <<Call(f, limit, offset)>>, <<>>)
  /\ UNCHANGED <<mounted, logs, total, limit, offset, hasMore, clientMode, clientAll,
                 exports, db>>

\* a click that sets offset to o: both effects run with the new offset
SetOffset(o, kind) ==
  /\ offset' = o
  /\ StartFetch(filters, limit, o)
  /\ SetShown(SliceEffect(Shown, limit, o))
  /\ events' = events + 1
  /\ lastEvent' = Event(kind, <<Call(filters, limit, o)>>, <<>>)
  /\ UNCHANGED <<mounted, filters, limit, exports, db>>

ClickPrevious ==
  /\ TableVisible
  /\ ~PreviousDisabled
  /\ events < MaxEvents
  /\ BagCardinality(inflight) < MaxInFlight
  /\ SetOffset(MathMax0(offset - limit), "previous")

ClickNext ==
  /\ TableVisible
  /\ ~NextDisabled
  /\ events < MaxEvents
  /\ BagCardinality(inflight) < MaxInFlight
  /\ SetOffset(offset + limit, "next")

\* the await of call m resolves: the rest of the try block, finally, and the
\* second effect (clientAll is a new array after every successful fetch)
FetchSucceeds(m) ==
  \E resp \in {RemoteResponse(m.req)} :
    \E update \in {FetchUpdate(resp, m.filters, m.limit, m.offset)} :
      \E shown \in {SliceEffect(update, limit, offset)} :
        /\ inflight' = inflight (-) SetToBag({m})
        /\ SetShown(shown)
        /\ loading' = FALSE
        /\ lastEvent' = Event("fetch_ok", <<m>>, <<>>)
        /\ UNCHANGED <<mounted, filters, error, limit, offset, exports, db, events>>

\* mutant of FetchFails: the catch block sends the request again
FetchFailsRetry(m, fl) ==
  /\ inflight' = inflight
  /\ error' = fetchLogsErrorMessage(fl)
  /\ loading' = FALSE
  /\ lastEvent' = Event("fetch_fail", <<m, fl>>, <<>>)
  /\ UNCHANGED <<mounted, filters, logs, total, limit, offset, hasMore, clientMode,
                 clientAll, exports, db, events>>

\* mutant of FetchFails: no finally block, loading stays as it is
FetchFailsNoFinally(m, fl) ==
  /\ inflight' = inflight (-) SetToBag({m})
  /\ error' = fetchLogsErrorMessage(fl)
  /\ lastEvent' = Event("fetch_fail", <<m, fl>>, <<>>)
  /\ UNCHANGED <<mounted, filters, logs, loading, total, limit, offset, hasMore,
                 clientMode, clientAll, exports, db, events>>

\* the await of call m rejects: catch and finally
FetchFails(m, fl) ==
  /\ inflight' = inflight (-) SetToBag({m})
  /\ error' = fetchLogsErrorMessage(fl)
  /\ loading' = FALSE
  /\ lastEvent' = Event("fetch_fail", <<m, fl>>, <<>>)
  /\ UNCHANGED <<mounted, filters, logs, total, limit, offset, hasMore, clientMode,
                 clientAll, exports, db, events>>

Next ==
  \/ Mount
  \/ \E f \in FilterChoices(db) : ChangeFilters(f)
  \/ ClickPrevious
  \/ ClickNext
  \/ \E m \in BagToSet(inflight) : FetchSucceeds(m)
  \/ \E m \in BagToSet(inflight), fl \in FailureChoices(db) : FetchFails(m, fl)

Spec == Init /\ [][Next]_vars

\* The display path when React mounts the component and the Remote Log Source
\* answers or fails every request: the promise of a call in flight settles.
Completes ==
  \/ \E m \in BagToSet(inflight) : FetchSucceeds(m)
  \/ \E m \in BagToSet(inflight), fl \in FailureChoices(db) : FetchFails(m, fl)

\* For the liveness of the display path: the large store, with and without a
\* type filter.
LiveFilters == {Filter(Undef, Undef, Undef, Undef), Filter("pii", Undef, Undef, Undef)}

InitLive ==
  /\ db = [i \in 1..DbBig |-> i]
  /\ mounted = FALSE
  /\ filters \in LiveFilters
  /\ logs = <<>>
  /\ loading = TRUE
  /\ error = Null
  /\ total = 0
  /\ limit = InitialLimit
  /\ offset = 0
  /\ hasMore = FALSE
  /\ clientMode = FALSE
  /\ clientAll = <<>>
  /\ inflight = EmptyBag
  /\ exports = EmptyBag
  /\ events = 0
  /\ lastEvent = Event("init", <<>>, <<>>)

NextLive ==
  \/ Mount
  \/ \E f \in LiveFilters : ChangeFilters(f)
  \/ ClickPrevious
  \/ ClickNext
  \/ \E m \in BagToSet(inflight) : FetchSucceeds(m)
  \/ \E m \in BagToSet(inflight), fl \in FailureChoices(db) : FetchFails(m, fl)

SpecLive == InitLive /\ [][NextLive]_vars /\ WF_vars(Mount) /\ WF_vars(Completes)

(***************************************************************************)
(* handleExport.                                                           *)
(***************************************************************************)
\* mutant of ExportLogMatches: a record without risks passes
ExportLogMatchesLenient(id, type, severity) ==
  LET risks == IF HasRisks(id) THEN Risks(id) ELSE <<>>
      typeOk == IF Truthy(type) THEN \A i \in 1..Len(risks) : risks[i].type = type
                ELSE TRUE
      severityOk == IF Truthy(severity)
                    THEN \A i \in 1..Len(risks) : risks[i].severity = severity
                    ELSE TRUE
  IN  typeOk /\ severityOk

\* mutant of ExportClientParams: type and severity are not taken out of the filters
ExportClientParamsUnstripped(f) ==
  [type |-> f.type, severity |-> f.severity, date_from |-> f.date_from,
   date_to |-> f.date_to, limit |-> BulkLimit, offset |-> 0, format |-> "json"]

\* const { type, severity, ...rest } = filters || {};  { ...rest, limit: 1000, offset: 0, format: 'json' }
ExportClientParams(f) ==
  [type |-> Undef, severity |-> Undef, date_from |-> f.date_from, date_to |-> f.date_to,
   limit |-> BulkLimit, offset |-> 0, format |-> "json"]

\* mutant of ExportServerParams: the limit and offset of the table
ExportServerParamsPaged(f, format) ==
  [type |-> f.type, severity |-> f.severity, date_from |-> f.date_from,
   date_to |-> f.date_to, limit |-> limit, offset |-> offset, format |-> format]

\* { ...filters, limit: 1000, offset: 0, format }
ExportServerParams(f, format) ==
  [type |-> f.type, severity |-> f.severity, date_from |-> f.date_from,
   date_to |-> f.date_to, limit |-> BulkLimit, offset |-> 0, format |-> format]

ExportRequest(f, format) ==
  IF HasTypeOrSeverity(f)
  THEN getLogs(ExportClientParams(f))
  ELSE getLogs(ExportServerParams(f, format))

\* the callback of response.logs.filter in handleExport
ExportLogMatches(id, type, severity) ==
  LET risks == IF HasRisks(id) THEN Risks(id) ELSE <<>>
      typeOk == IF Truthy(type) THEN \E i \in 1..Len(risks) : risks[i].type = type
                ELSE TRUE
      severityOk == IF Truthy(severity)
                    THEN \E i \in 1..Len(risks) : risks[i].severity = severity
                    ELSE TRUE
  IN  typeOk /\ severityOk

exportFiltered(responseLogs, type, severity) ==
  SelectSeq(responseLogs, LAMBDA id : ExportLogMatches(id, type, severity))

\* A text is the sequence of its pieces: a literal piece of the program's own text
\* (value -1), or the printed value of the named property of a record (value is
\* the record's id) or of a number, bare or between double quotes.  The values
\* printed (ids, request ids, timestamps, decisions, counts) hold no comma, no
\* double quote and no line break.
Cell(quoted, name, value) == [quoted |-> quoted, name |-> name, value |-> value]

Literal(text) == Cell(FALSE, text, -1)

Comma == Literal(",")
LineBreak == Literal("\n")

RECURSIVE Join(_, _)
\* Array.prototype.join: the parts with sep between them
Join(parts, sep) ==
  IF Len(parts) = 0 THEN <<>>
  ELSE IF Len(parts) = 1 THEN parts[1]
  ELSE LET half == Len(parts) \div 2
       IN  Join(SubSeq(parts, 1, half), sep) \o <<sep>>
             \o Join(SubSeq(parts, half + 1, Len(parts)), sep)

\* 'id,request_id,timestamp,decision,risk_count\n'
CsvHeader ==
  <<Literal("id"), Comma, Literal("request_id"), Comma, Literal("timestamp"), Comma,
    Literal("decision"), Comma, Literal("risk_count"), LineBreak>>

\* mutant of RiskCount: 1 for a record that has a risks array
RiskCountFlag(id) == IF HasRisks(id) THEN 1 ELSE 0

\* log.risks?.length ?? 0
RiskCount(id) == IF HasRisks(id) THEN Len(Risks(id)) ELSE 0

\* cols.join(',') of one log
CsvRow(id) ==
  Join(<< <<Cell(FALSE, "id", id)>>,
          <<Cell(TRUE, "request_id", id)>>,
          <<Cell(TRUE, "timestamp", id)>>,
          <<Cell(TRUE, "decision", id)>>,
          <<Cell(FALSE, "risk_count", RiskCount(id))>> >>, Comma)

\* header + rows.join('\n')
LocalCsv(fl) == CsvHeader \o Join([i \in 1..Len(fl) |-> CsvRow(fl[i])], LineBreak)

\* mutant of LocalJson: the page the table is on instead of the whole set
LocalJsonPaged(fl) ==
  [logs |-> Slice(fl, offset, offset + limit), total |-> Len(fl), limit |-> limit,
   offset |-> offset, has_more |-> offset + limit < Len(fl)]

\* JSON.stringify({ logs: filtered, total, limit, offset: 0, has_more: false })
LocalJson(fl) ==
  [logs |-> fl, total |-> Len(fl), limit |-> Len(fl), offset |-> 0, has_more |-> FALSE]

\* GET /v1/logs with format=csv: the text the Remote Log Source answers, the
\* header line and one line per record of the page asked for
RemoteCsv(req) ==
  LET page == RemoteResponse(req).logs
      Line(id) == <<Cell(FALSE, "id", id), Comma, Cell(TRUE, "request_id", id), Comma,
                    Cell(TRUE, "timestamp", id), Comma, Cell(TRUE, "decision", id), Comma,
                    Cell(FALSE, "risk_count", IF HasRisks(id) THEN Len(Risks(id)) ELSE 0),
                    LineBreak>>
      RECURSIVE Lines(_, _)
      Lines(from, to) ==
        IF from > to THEN <<>>
        ELSE IF from = to THEN Line(page[from])
        ELSE Lines(from, (from + to) \div 2) \o Lines((from + to) \div 2 + 1, to)
  IN  <<Literal("id"), Comma, Literal("request_id"), Comma, Literal("timestamp"), Comma,
        Literal("decision"), Comma, Literal("risk_count"), LineBreak>> \o Lines(1, Len(page))

\* the file handed to the browser: a.download and the Blob
Download(ext, mime, body) == [ext |-> ext, mime |-> mime, body |-> body]

\* the try block of handleExport after its await
ExportFile(f, format, req) ==
  IF HasTypeOrSeverity(f)
  THEN LET fl == exportFiltered(RemoteResponse(req).logs, f.type, f.severity)
       IN  IF format = "csv"
           THEN Download("csv", "text/csv", LocalCsv(fl))
           ELSE Download("json", "application/json", LocalJson(fl))
  ELSE IF format = "csv"
       THEN Download("csv", "text/csv", RemoteCsv(req))
       ELSE Download("json", "application/json", RemoteResponse(req))

ExportCall(f, format) == [filters |-> f, format |-> format, req |-> ExportRequest(f, format)]

\* a click on Export CSV or Export JSON, up to the await
ExportStart(format) ==
  /\ TableVisible
  /\ events < MaxEvents
  /\ BagCardinality(exports) < MaxExports
  /\ exports' = exports (+) SetToBag({ExportCall(filters, format)})
  /\ events' = events + 1
  /\ lastEvent' = Event("export", <<ExportCall(filters, format)>>, <<>>)
  /\ UNCHANGED <<mounted, filters, display, inflight, db>>

\* the await of export m resolves: the file is built and a.click() downloads it
ExportSucceeds(m) ==
  /\ exports' = exports (-) SetToBag({m})
  /\ lastEvent' = Event("export_ok", <<m>>, <<ExportFile(m.filters, m.format, m.req)>>)
  /\ UNCHANGED <<mounted, filters, display, inflight, db, events>>

\* The ways an export can fail: the request fails, or the answer arrives and
\* building the file throws (an answer without `logs`, a Blob that cannot be made).
BuildFailure == [kind |-> "build", json |-> FALSE, detail |-> Undef, statusText |-> ""]

ExportFailures == Failures \cup {BuildFailure}

\* what the catch block of handleExport catches
ExportCaught(m, fl) ==
  IF fl.kind = "build" THEN [api |-> FALSE, message |-> "TypeError"]
  ELSE getLogsError(m.req.format, fl)

\* mutant of ExportAlert: the error is dropped without a notification
ExportAlertSilent(err) == Null

\* catch (err) { alert('Failed to export logs'); }
ExportAlert(err) == "Failed to export logs"

\* export m fails as fl: the catch block; nothing of the try block after the point
\* of failure has run, so no a.click()
ExportFails(m, fl) ==
  /\ exports' = exports (-) SetToBag({m})
  /\ lastEvent' = Event("export_fail", <<m, fl, ExportCaught(m, fl)>>,
                        <<ExportAlert(ExportCaught(m, fl))>>)
  /\ UNCHANGED <<mounted, filters, display, inflight, db, events>>

\* The filters the parent passes while exports are made: none against the large
\* store; against the 3 records, a type only or a severity only.
ExportFilterChoices(store) ==
  IF Len(store) > 3 THEN {}
  ELSE {Filter("pii", Undef, Undef, Undef), Filter(Undef, "low", Undef, Undef)}

\* The export path next to the display path.
NextExport ==
  \/ Mount
  \/ ClickPrevious
  \/ ClickNext
  \/ \E m \in BagToSet(inflight) : FetchSucceeds(m)
  \/ \E m \in BagToSet(inflight), fl \in FailureChoices(db) : FetchFails(m, fl)
  \/ \E f \in ExportFilterChoices(db) : ChangeFilters(f)
  \/ \E format \in {"json", "csv"} : ExportStart(format)
  \/ \E m \in BagToSet(exports) : ExportSucceeds(m)
  \/ \E m \in BagToSet(exports), fl \in ExportFailures : ExportFails(m, fl)

SpecExport == Init /\ [][NextExport]_vars

\* The same component in front of a store that holds more records than the bulk
\* limit asks for.
OverCeilingFilters ==
  { Filter(Undef, Undef, Undef, Undef),
    Filter("", Undef, "2024-01-02", Undef),
    Filter("pii", Undef, Undef, Undef) }

InitOverCeiling ==
  /\ db = [i \in 1..DbOverCeiling |-> i]
  /\ mounted = FALSE
  /\ filters \in OverCeilingFilters
  /\ logs = <<>>
  /\ loading = TRUE
  /\ error = Null
  /\ total = 0
  /\ limit = InitialLimit
  /\ offset = 0
  /\ hasMore = FALSE
  /\ clientMode = FALSE
  /\ clientAll = <<>>
  /\ inflight = EmptyBag
  /\ exports = EmptyBag
  /\ events = 0
  /\ lastEvent = Event("init", <<>>, <<>>)

\* the export path next to a display path whose filters stay as mounted
NextExportOverCeiling ==
  \/ Mount
  \/ ClickPrevious
  \/ ClickNext
  \/ \E m \in BagToSet(inflight) : FetchSucceeds(m)
  \/ \E m \in BagToSet(inflight), fl \in FailureChoices(db) : FetchFails(m, fl)
  \/ \E format \in {"json", "csv"} : ExportStart(format)
  \/ \E m \in BagToSet(exports) : ExportSucceeds(m)
  \/ \E m \in BagToSet(exports), fl \in ExportFailures : ExportFails(m, fl)

SpecExportOverCeiling == InitOverCeiling /\ [][NextExportOverCeiling]_vars

(***************************************************************************)
(* Properties.                                                             *)
(***************************************************************************)
Pending == BagCardinality(inflight)

\* no display fetch is in flight and the table (not the error box) is rendered
Settled == mounted /\ Pending = 0 /\ ~Truthy(error)

Present(v) == v # Undef

\* the query made of exactly (f, lim, off): a key is sent iff the filter has it
ExactQuery(f, lim, off) ==
  [k \in {"limit", "offset", "format"} \cup {k \in OptionalKeys : Present(f[k])} |->
     CASE k = "limit" -> lim
       [] k = "offset" -> off
       [] k = "format" -> "json"
       [] OTHER -> f[k]]

\* the bulk query of the client-side branch for filters f: the date range only
BulkQuery(f) ==
  [k \in {"limit", "offset", "format"} \cup
         {k \in {"date_from", "date_to"} : Present(f[k])} |->
     CASE k = "limit" -> 1000
       [] k = "offset" -> 0
       [] k = "format" -> "json"
       [] OTHER -> f[k]]

RiskTypes(id) == IF HasRisks(id) THEN {Risks(id)[i].type : i \in DOMAIN Risks(id)} ELSE {}
RiskSeverities(id) ==
  IF HasRisks(id) THEN {Risks(id)[i].severity : i \in DOMAIN Risks(id)} ELSE {}

\* (type unset OR some risk has that type) AND (severity unset OR some risk has it)
Satisfies(id, f) ==
  /\ Truthy(f.type) => f.type \in RiskTypes(id)
  /\ Truthy(f.severity) => f.severity \in RiskSeverities(id)

\* the call the last event was about
LastCall == lastEvent.msg[1]

\* C1: in remote mode (filters without type and severity), whenever no display
\* fetch is in flight and no error is shown, logs, total and has_more are those of
\* the Remote Log Source's response to the query made of exactly the current
\* filters, limit and offset, whatever the order of completion.
C1_RemoteTotalMatchesQuery ==
  (Settled /\ ~HasTypeOrSeverity(filters)) =>
    LET r == RemoteResponse(ExactQuery(filters, limit, offset))
    IN  total = r.total /\ logs = r.logs /\ hasMore = r.has_more

\* C2: after a successful display fetch with type and/or severity set, the cache
\* is exactly the sub-sequence, in response order, of the returned records that
\* satisfy (type unset OR some risk has the type) AND (severity unset OR some risk
\* has the severity), a record without a risks array having no risks, and total is
\* its length; on the records 1:[pii/high], 2:[injection/low], 3:[] type=pii gives
\* {1}, severity=low gives {2}, injection and low gives {2}, pii and low nothing.
C2_LocalFilterExact ==
  (lastEvent.kind = "fetch_ok" /\ HasTypeOrSeverity(LastCall.filters)) =>
    LET f == LastCall.filters
        returned == RemoteResponse(LastCall.req).logs
    IN  /\ clientMode
        /\ clientAll = SelectSeq(returned, LAMBDA id : Satisfies(id, f))
        /\ total = Len(clientAll)
        /\ returned = <<1, 2, 3>> =>
             /\ (f.type = "pii" /\ ~Truthy(f.severity)) => clientAll = <<1>>
             /\ (~Truthy(f.type) /\ f.severity = "low") => clientAll = <<2>>
             /\ (f.type = "injection" /\ f.severity = "low") => clientAll = <<2>>
             /\ (f.type = "pii" /\ f.severity = "low") => clientAll = <<>>

C2_Witness ==
  /\ lastEvent.kind = "fetch_ok"
  /\ LastCall.filters.type = "injection" /\ LastCall.filters.severity = "low"
  /\ RemoteResponse(LastCall.req).logs = <<1, 2, 3>>
  /\ clientAll = <<2>>

\* the cache the client-side branch computes for filters f from the store
ExpectedCache(f) ==
  LET returned == RemoteResponse(BulkQuery(f)).logs
  IN  SelectSeq(returned, LAMBDA id : Satisfies(id, f))

\* C3: which of {remote page, local cache} is authoritative is determined by the
\* current filters alone: clientMode is true iff the current filters have type or
\* severity set, and what is displayed was derived from a response to the current
\* filters.  Stated for the states in which no display fetch is in flight and no
\* error is shown, the least the claim asks.
C3_ModeFollowsFilters ==
  Settled =>
    /\ clientMode <=> HasTypeOrSeverity(filters)
    /\ IF clientMode THEN clientAll = ExpectedCache(filters)
       ELSE logs = RemoteResponse(ExactQuery(filters, limit, offset)).logs

C5_OffsetChangeNoFetch ==
  [][(clientMode /\ HasTypeOrSeverity(filters) /\ filters' = filters /\ offset' # offset)
       => inflight' = inflight]_vars

\* C6: a change of any filter field invalidates the cache and recomputes it: once
\* the fetches have completed (and no error is shown) the cache is the one computed
\* from a response to the current criteria with the current predicate, never one
\* derived from earlier criteria.
C6_CacheRecomputed ==
  (Settled /\ HasTypeOrSeverity(filters) /\ clientMode) =>
    clientAll = ExpectedCache(filters)

RECURSIVE ConcatPages(_, _, _)
\* the slices of cache at offsets k*L, (k+1)*L, ... one after the other
ConcatPages(cache, L, k) ==
  IF k * L >= Len(cache) THEN <<>>
  ELSE Slice(cache, k * L, k * L + L) \o ConcatPages(cache, L, k + 1)

Elements(s) == {s[i] : i \in DOMAIN s}

\* The pages of the cache at offsets 0, L, 2L, ...: disjoint, in cache order,
\* covering the cache; every page but the last has length L, the last has length
\* N mod L (or L when N mod L = 0); the page shown at one of these offsets is that
\* page, with has_more true except on the last.
PageRoundTrip ==
  LET n == Len(clientAll)
      L == limit
      pages == IF n = 0 THEN 1 ELSE (n + L - 1) \div L
      first(k) == k * L + 1
      last(k) == IF (k + 1) * L < n THEN (k + 1) * L ELSE n
      Page(k) == Slice(clientAll, k * L, k * L + L)
  IN  /\ ConcatPages(clientAll, L, 0) = clientAll
      /\ \A k \in 0..(pages - 1) : Page(k) = [i \in 1..(last(k) - first(k) + 1) |->
                                                clientAll[first(k) + i - 1]]
      /\ \A j, k \in 0..(pages - 1) : j < k => Elements(Page(j)) \cap Elements(Page(k)) = {}
      /\ \A k \in 0..(pages - 2) : Len(Page(k)) = L
      /\ Len(Page(pages - 1)) = (IF n % L = 0 THEN L ELSE n % L)
      /\ (offset % L = 0 /\ offset \div L < pages) =>
           /\ logs = Page(offset \div L)
           /\ hasMore <=> (offset \div L < pages - 1)

\* C7 as claimed: for any local-mode cache of size N and limit L.
C7_PaginationRoundTrip == clientMode => PageRoundTrip

\* C7 amended: for any local-mode cache of size N > 0 and limit L, the slices at
\* offsets 0, L, 2L, ... are disjoint, in cache order and cover the cache; the last
\* page has length N mod L (or L when N mod L = 0), every earlier page has length
\* L, and has_more is false on the last page only.
C7_PaginationRoundTripNonEmpty == (clientMode /\ Len(clientAll) > 0) => PageRoundTrip

C7_Witness ==
  /\ clientMode
  /\ Len(clientAll) > limit /\ Len(clientAll) % limit = 0
  /\ offset = Len(clientAll) - limit
  /\ Len(logs) = limit /\ ~hasMore

\* C8: Previous from offset O lands at max(0, O - L) and is available only when
\* offset # 0; Next lands at O + L and is available only when has_more is true;
\* offset never becomes negative.
C8_Navigation ==
  [][/\ offset' < offset =>
          TableVisible /\ offset # 0 /\ ~PreviousDisabled /\ lastEvent'.kind = "previous"
          /\ offset' = (IF offset - limit > 0 THEN offset - limit ELSE 0)
     /\ offset' > offset =>
          TableVisible /\ hasMore /\ ~NextDisabled /\ lastEvent'.kind = "next"
          /\ offset' = offset + limit
     /\ PreviousDisabled <=> offset = 0
     /\ NextDisabled <=> ~hasMore
     /\ offset' >= 0]_vars

C8_Witness == lastEvent.kind = "previous" /\ offset = limit /\ events >= 3

\* what a request of the client-side branch carries, for a call made with filters f
StrippedBulk(req, f) ==
  /\ "type" \notin DOMAIN req
  /\ "severity" \notin DOMAIN req
  /\ \A k \in {"date_from", "date_to"} :
       /\ k \in DOMAIN req <=> Present(f[k])
       /\ k \in DOMAIN req => req[k] = f[k]
  /\ req.limit = 1000
  /\ req.offset = 0

\* C9: whenever type or severity is set, the request sent for display and the one
\* sent for export carry neither type nor severity, carry date_from/date_to exactly
\* when the filters have them, and use limit 1000 and offset 0 whatever the
\* current limit and offset.
C9_LocalRequestStripped ==
  /\ \A m \in BagToSet(inflight) : HasTypeOrSeverity(m.filters) => StrippedBulk(m.req, m.filters)
  /\ \A m \in BagToSet(exports) : HasTypeOrSeverity(m.filters) => StrippedBulk(m.req, m.filters)

C9_Witness ==
  /\ offset > 0
  /\ \E m \in BagToSet(exports) : HasTypeOrSeverity(m.filters) /\ Present(m.filters.date_from)
  /\ \E m \in BagToSet(inflight) : HasTypeOrSeverity(m.filters) /\ m.offset > 0

\* C10: when neither type nor severity is set the display fetch sends the filters
\* with the current limit and offset, and on success logs, total and has_more are
\* the response's, clientMode is false and the cache is empty.
C10_RemoteVerbatim ==
  /\ (lastEvent.kind \in {"mount", "filters", "previous", "next"} /\ ~HasTypeOrSeverity(filters)) =>
       LastCall.req = ExactQuery(filters, limit, offset)
  /\ (lastEvent.kind = "fetch_ok" /\ ~HasTypeOrSeverity(LastCall.filters)) =>
       LET r == RemoteResponse(LastCall.req)
       IN  /\ logs = r.logs
           /\ total = r.total
           /\ hasMore = r.has_more
           /\ ~clientMode
           /\ clientAll = <<>>

C10_Witness ==
  /\ lastEvent.kind = "fetch_ok"
  /\ ~HasTypeOrSeverity(LastCall.filters)
  /\ LastCall.offset > 0
  /\ hasMore /\ total > Len(logs) /\ Len(logs) = limit

(***************************************************************************)
(* Exports.                                                                *)
(***************************************************************************)
\* the file the last event downloaded
LastFile == lastEvent.out[1]

LocalExportDone(format) ==
  /\ lastEvent.kind = "export_ok"
  /\ HasTypeOrSeverity(LastCall.filters)
  /\ LastCall.format = format

RemoteExportDone(format) ==
  /\ lastEvent.kind = "export_ok"
  /\ ~HasTypeOrSeverity(LastCall.filters)
  /\ LastCall.format = format

RECURSIVE SplitRange(_, _, _, _)
\* text[from..to] cut at every piece equal to sep: the sequence of the segments
\* between the separators (one more segment than there are separators)
SplitRange(text, sep, from, to) ==
  IF from > to THEN << <<>> >>
  ELSE IF from = to THEN (IF text[from] = sep THEN << <<>>, <<>> >> ELSE << <<text[from]>> >>)
  ELSE LET mid == (from + to) \div 2
           left == SplitRange(text, sep, from, mid)
           right == SplitRange(text, sep, mid + 1, to)
       IN  SubSeq(left, 1, Len(left) - 1) \o << left[Len(left)] \o right[1] >> \o Tail(right)

Split(text, sep) == SplitRange(text, sep, 1, Len(text))

\* the lines of a text; a line break at the very end ends the last line
TextLines(text) ==
  LET segs == Split(text, LineBreak)
  IN  IF segs[Len(segs)] = <<>> THEN SubSeq(segs, 1, Len(segs) - 1) ELSE segs

\* C11: the csv text of a local-mode export, read back line by line, is the header
\* line id,request_id,timestamp,decision,risk_count followed by exactly one line per
\* record of the filtered set, in filtered order; each line has exactly 5
\* comma-separated fields: the id, the quoted request_id, timestamp and decision,
\* and the number of the record's risks (0 when it has no risks array).
C11_LocalCsvShape ==
  LocalExportDone("csv") =>
    LET set == ExpectedCache(LastCall.filters)
        lines == TextLines(LastFile.body)
        names == <<"id", "request_id", "timestamp", "decision", "risk_count">>
    IN  /\ LastFile.ext = "csv" /\ LastFile.mime = "text/csv"
        /\ Len(lines) = 1 + Len(set)
        /\ Split(lines[1], Comma) = [c \in 1..5 |-> <<[quoted |-> FALSE, name |-> names[c], value |-> -1]>>]
        /\ \A i \in 1..Len(set) :
             LET fields == Split(lines[i + 1], Comma)
                 count == IF HasRisks(set[i]) THEN Len(Risks(set[i])) ELSE 0
             IN  /\ Len(fields) = 5
                 /\ \A c \in 1..4 :
                      fields[c] = <<[quoted |-> c > 1, name |-> names[c], value |-> set[i]]>>
                 /\ fields[5] = <<[quoted |-> FALSE, name |-> "risk_count", value |-> count]>>

C11_Witness ==
  /\ LocalExportDone("csv")
  /\ Len(TextLines(LastFile.body)) > 50
  /\ \E i \in DOMAIN LastFile.body :
       LastFile.body[i] = [quoted |-> FALSE, name |-> "risk_count", value |-> 2]

\* C12: the json file of a local-mode export is the object {logs, total, limit,
\* offset, has_more} with logs the whole filtered set, total = limit = its length,
\* offset = 0 and has_more = false, whatever the table's limit and offset.
C12_LocalJsonWhole ==
  LocalExportDone("json") =>
    LET set == ExpectedCache(LastCall.filters)
    IN  /\ LastFile.ext = "json" /\ LastFile.mime = "application/json"
        /\ DOMAIN LastFile.body = {"logs", "total", "limit", "offset", "has_more"}
        /\ LastFile.body.logs = set
        /\ LastFile.body.total = Len(set)
        /\ LastFile.body.limit = Len(set)
        /\ LastFile.body.offset = 0
        /\ LastFile.body.has_more = FALSE

C12_Witness ==
  /\ LocalExportDone("json")
  /\ offset > 0
  /\ Len(LastFile.body.logs) > limit
  /\ LastFile.body.limit # limit

\* the filters a request carries: the fields that are present in f, as they are
CarriesFilters(req, f) ==
  \A k \in OptionalKeys :
    /\ k \in DOMAIN req <=> Present(f[k])
    /\ k \in DOMAIN req => req[k] = f[k]

\* every record of the store that matches the filters of the request, whatever
\* page the request asks for
AllMatching(req) == SelectSeq(db, LAMBDA id : RemoteMatches(id, req))

\* C13: a remote-mode export sends the filters as they are with the requested
\* format and downloads exactly what the Remote Log Source answered; the exported
\* json covers every record matching the filters: it is not one page of them and
\* does not report has_more = true.
C13_RemoteExportFull ==
  /\ RemoteExportDone("csv") =>
       /\ CarriesFilters(LastCall.req, LastCall.filters) /\ LastCall.req.format = "csv"
       /\ LastFile = [ext |-> "csv", mime |-> "text/csv", body |-> RemoteCsv(LastCall.req)]
  /\ RemoteExportDone("json") =>
       /\ CarriesFilters(LastCall.req, LastCall.filters) /\ LastCall.req.format = "json"
       /\ LastFile = [ext |-> "json", mime |-> "application/json",
                      body |-> RemoteResponse(LastCall.req)]
       /\ LastFile.body.logs = AllMatching(LastCall.req)
       /\ ~LastFile.body.has_more

(***************************************************************************)
(* Failures.                                                               *)
(***************************************************************************)
\* the way the request of the last event failed
LastFailure == lastEvent.msg[2]

\* C14: when the request of a display fetch fails (rejected fetch or non-success
\* status), error becomes the APIError's message, or 'Failed to fetch logs' when
\* the error is not an APIError, the error box is what is rendered, and logs,
\* total, hasMore, clientMode, clientAll, limit and offset stay as they were.
C14_FetchFailureObservable ==
  [][lastEvent'.kind = "fetch_fail" =>
       LET fl == lastEvent'.msg[2]
           err == getLogsError("json", fl)
       IN  /\ error' = (IF err.api THEN err.message ELSE "Failed to fetch logs")
           /\ error' # Null /\ error' # ""
           /\ (loading' = FALSE) /\ Truthy(error')
           /\ UNCHANGED <<logs, total, hasMore, clientMode, clientAll, limit, offset>>]_vars

C14_Witness ==
  /\ lastEvent.kind = "fetch_fail"
  /\ LastFailure.kind = "http" /\ Truthy(LastFailure.detail)
  /\ error = LastFailure.detail
  /\ clientMode /\ Len(logs) > 0 /\ offset > 0

\* the whole payload of the export call m, as the code is to build it
WholePayload(m) ==
  IF HasTypeOrSeverity(m.filters)
  THEN LET set == SelectSeq(RemoteResponse(m.req).logs, LAMBDA id : Satisfies(id, m.filters))
       IN  IF m.format = "csv" THEN LocalCsv(set)
           ELSE [logs |-> set, total |-> Len(set), limit |-> Len(set), offset |-> 0,
                 has_more |-> FALSE]
  ELSE IF m.format = "csv" THEN RemoteCsv(m.req) ELSE RemoteResponse(m.req)

\* C15: an export that fails, because the request fails (in either mode) or
\* because building the file throws, produces the notification 'Failed to export
\* logs' and no file; a file is downloaded only by an export whose request
\* succeeded, and it holds the whole payload.
C15_ExportFailureReported ==
  /\ lastEvent.kind = "export_fail" => lastEvent.out = <<"Failed to export logs">>
  /\ lastEvent.kind = "export_ok" =>
       /\ Len(lastEvent.out) = 1
       /\ LastFile.body = WholePayload(LastCall)
  /\ lastEvent.kind \notin {"export_ok", "export_fail"} => lastEvent.out = <<>>

C15_Witness ==
  /\ lastEvent.kind = "export_fail"
  /\ LastFailure.kind = "build"
  /\ HasTypeOrSeverity(LastCall.filters)
  /\ lastEvent.out = <<"Failed to export logs">>

\* the detail message of the error body, when the body is json and has one
ServerDetail(fl) == IF fl.json /\ Truthy(fl.detail) THEN fl.detail ELSE Undef

\* the generic messages for a failure with the given status text
GenericMessages(statusText) ==
  {statusText, ApiRequestFailed(statusText), FailedToFetchLogs(statusText)} \ {""}

\* C16: a non-success status of the log endpoint is surfaced, for a json and for a
\* csv request alike, as an APIError whose message is the detail of the error
\* body when it has one and a generic failure message otherwise; the table shows
\* that message, and 'Failed to fetch logs' for a failure that is no APIError.
C16_DetailSurfaced ==
  /\ (lastEvent.kind = "export_fail" /\ LastFailure.kind = "http") =>
       LET caught == lastEvent.msg[3]
       IN  /\ caught.api
           /\ IF Present(ServerDetail(LastFailure))
              THEN caught.message = ServerDetail(LastFailure)
              ELSE caught.message \in GenericMessages(LastFailure.statusText)
  /\ (lastEvent.kind = "fetch_fail" /\ LastFailure.kind = "http") =>
       IF Present(ServerDetail(LastFailure))
       THEN error = ServerDetail(LastFailure)
       ELSE error \in GenericMessages(LastFailure.statusText)
  /\ (lastEvent.kind = "fetch_fail" /\ LastFailure.kind # "http") =>
       error = "Failed to fetch logs"

(***************************************************************************)
(* Overlapping display fetches.                                            *)
(***************************************************************************)
\* C17: once all the display fetches in flight have completed, in whatever order,
\* what is rendered is what the fetch that completed last determines: if it
\* succeeded, the mode, cache and total of its filters and no error of a fetch
\* that failed before it; if it failed, its error.
C17_LastCompletedWins ==
  (mounted /\ Pending = 0) =>
    /\ lastEvent.kind = "fetch_ok" =>
         /\ ~Truthy(error)
         /\ clientMode <=> HasTypeOrSeverity(LastCall.filters)
         /\ clientMode => clientAll = ExpectedCache(LastCall.filters)
         /\ total = (IF clientMode THEN Len(ExpectedCache(LastCall.filters))
                     ELSE RemoteResponse(LastCall.req).total)
    /\ lastEvent.kind = "fetch_fail" =>
         error = (IF LastFailure.kind = "http" THEN getLogsError("json", LastFailure).message
                  ELSE "Failed to fetch logs")

(***************************************************************************)
(* Export and display.                                                     *)
(***************************************************************************)
\* the ids of the records a downloaded file holds, in the order it holds them
ExportedIds(file) ==
  IF file.ext = "json" THEN file.body.logs
  ELSE LET lines == TextLines(file.body)
       IN  [i \in 1..(Len(lines) - 1) |-> Split(lines[i + 1], Comma)[1][1].value]

\* C18: a local-mode export sends the bulk request the display fetch sends for the
\* same filters (same limit 1000, offset 0, same date range) and the set it
\* serializes is, record for record and in order, the cache fetchLogs computes
\* from that response, whatever is cached or displayed at the time.
C18_ExportEqualsDisplayCache ==
  (lastEvent.kind = "export_ok" /\ HasTypeOrSeverity(LastCall.filters)) =>
    LET f == LastCall.filters
        resp == RemoteResponse(LastCall.req)
    IN  /\ LastCall.req = FetchRequest(f, limit, offset)
        /\ LastCall.req.limit = BulkLimit
        /\ ExportedIds(LastFile) = FetchClientUpdate(resp, f, limit, offset).clientAll

C18_Witness ==
  /\ lastEvent.kind = "export_ok"
  /\ HasTypeOrSeverity(LastCall.filters)
  /\ ExportedIds(LastFile) # <<>>
  /\ Len(ExportedIds(LastFile)) < Len(RemoteResponse(LastCall.req).logs)
  /\ clientAll # ExportedIds(LastFile)
  /\ Pending = 0

\* the query an export of the given format makes of the filters f alone
ExportQuery(f, format) ==
  LET local == Truthy(f.type) \/ Truthy(f.severity)
      keys == IF local THEN {"date_from", "date_to"} ELSE OptionalKeys
  IN  [k \in {"limit", "offset", "format"} \cup {k \in keys : Present(f[k])} |->
         CASE k = "limit" -> 1000
           [] k = "offset" -> 0
           [] k = "format" -> (IF local THEN "json" ELSE format)
           [] OTHER -> f[k]]

\* C19: a step of an export (the click, its success, its failure), in either mode,
\* leaves logs, total, hasMore, loading, error, limit, offset, clientMode and
\* clientAll as they are and starts no display fetch; the request of the click is
\* made of the current filters and the format alone.
C19_ExportIndependent ==
  [][lastEvent'.kind \in {"export", "export_ok", "export_fail"} =>
       /\ UNCHANGED <<logs, total, hasMore, loading, error, limit, offset, clientMode,
                      clientAll>>
       /\ UNCHANGED <<inflight, filters>>
       /\ lastEvent'.kind = "export" =>
            lastEvent'.msg[1].req = ExportQuery(filters, lastEvent'.msg[1].format)]_vars

C19_Witness ==
  /\ lastEvent.kind = "export_fail"
  /\ ~HasTypeOrSeverity(LastCall.filters)
  /\ LastCall.format = "csv"
  /\ offset > 0 /\ Pending > 0 /\ loading

(***************************************************************************)
(* Loading.                                                                *)
(***************************************************************************)
\* C20: provided every request is answered or fails, loading always ends: from a
\* state in which loading is true a state is reached in which no display fetch is
\* in flight and loading is false, whether the fetches succeeded or failed, and
\* loading is never true while no fetch is in flight.
C20_LoadingEnds ==
  /\ [](mounted /\ Pending = 0 => ~loading)
  /\ loading ~> (Pending = 0 /\ ~loading)

C20_Witness ==
  /\ lastEvent.kind = "fetch_fail"
  /\ Pending = 0 /\ ~loading
  /\ events >= 2

(***************************************************************************)
(* When a display fetch is started.                                        *)
(***************************************************************************)
\* the filters, the limit or the offset change in the step
QueryChanges == filters' # filters \/ limit' # limit \/ offset' # offset

\* C21: a display fetch is started only by the mount and by a change of the
\* filters, the limit or the offset, exactly one per change and for the new
\* values; the failure of a fetch starts none (no retry): it only takes the failed
\* call out of the calls in flight, and so does a success.
C21_NoAutomaticRetry ==
  [][/\ lastEvent'.kind \in {"fetch_fail", "fetch_ok"} =>
          /\ ~QueryChanges
          /\ inflight' = inflight (-) SetToBag({lastEvent'.msg[1]})
          /\ BagCardinality(inflight') = BagCardinality(inflight) - 1
     /\ BagCardinality(inflight') > BagCardinality(inflight) =>
          /\ ~mounted \/ QueryChanges
          /\ BagCardinality(inflight') = BagCardinality(inflight) + 1
          /\ \E c \in BagToSet(inflight') :
               /\ inflight' = inflight (+) SetToBag({c})
               /\ c.filters = filters' /\ c.limit = limit' /\ c.offset = offset'
     /\ (mounted /\ QueryChanges) =>
          BagCardinality(inflight') = BagCardinality(inflight) + 1
     /\ (~mounted /\ mounted') =>
          BagCardinality(inflight') = BagCardinality(inflight) + 1]_vars

C21_Witness ==
  /\ lastEvent.kind = "fetch_fail"
  /\ Truthy(error) /\ ErrorScreen
  /\ inflight = EmptyBag
  /\ events = 1

\* C22: loading is true whenever at least one display fetch is in flight: with
\* overlapping fetches it does not become false before the last outstanding fetch
\* has completed.
C22_LoadingWhileInFlight == Pending > 0 => loading

(***************************************************************************)
(* Shape of the page state.                                                *)
(***************************************************************************)
\* C23: the table is never left on a page past the end of the result set: when no
\* display fetch is in flight and no error is shown, total = 0 or offset < total,
\* whatever the filter changes (which keep the offset), clicks and arrivals.
C23_OffsetWithinTotal == Settled => (total = 0 \/ offset < total)

\* C24: limit is 50 from the start and never changes; offset starts at 0, is
\* always a non-negative multiple of limit and is changed only by Previous and
\* Next: a change of the filters leaves it as it is.
C24_PageStateShape ==
  /\ limit = 50 /\ offset = 0
  /\ [](limit = 50 /\ offset >= 0 /\ offset % limit = 0)
  /\ [][/\ limit' = limit
        /\ offset' # offset => lastEvent'.kind \in {"previous", "next"}
        /\ filters' # filters => offset' = offset]_vars

C24_Witness ==
  /\ lastEvent.kind = "filters"
  /\ offset = 2 * limit
  /\ LastCall.offset = offset
====
